---- MODULE Spec2Model ----
(***************************************************************************)
(* Model of utilities_vk.h: BufferAndView, createImageSimple, doTransition *)
(* and ImageAndView (resource + view wrappers and the image layout /       *)
(* stage / access tracker).                                                *)
(*                                                                         *)
(* One ImageAndView object and one BufferAndView object are modelled,      *)
(* together with the collaborators they call: the allocator and device     *)
(* (which own the sets of live images, views and buffers) and one          *)
(* caller-owned command buffer (an append-only sequence of commands).      *)
(* assert() is modelled as compiled in: a failed assertion aborts the      *)
(* program.                                                                *)
(***************************************************************************)
EXTENDS Integers, Sequences, FiniteSets, TLC

(***************************************************************************)
(* Bounds of the model.                                                    *)
(***************************************************************************)
\* Calls made on the ImageAndView object in one run.
MaxCalls == 4
\* Calls made on the BufferAndView object in one run.
MaxBufferCalls == 3

(***************************************************************************)
(* Vulkan enumerants used by the source (values of vulkan_core.h).         *)
(***************************************************************************)
NULL == 0

VK_IMAGE_LAYOUT_UNDEFINED == 0
VK_IMAGE_LAYOUT_GENERAL == 1
VK_IMAGE_LAYOUT_COLOR_ATTACHMENT_OPTIMAL == 2
VK_IMAGE_LAYOUT_DEPTH_STENCIL_ATTACHMENT_OPTIMAL == 3

VK_PIPELINE_STAGE_TOP_OF_PIPE_BIT == 1
VK_PIPELINE_STAGE_FRAGMENT_SHADER_BIT == 128
VK_PIPELINE_STAGE_COLOR_ATTACHMENT_OUTPUT_BIT == 1024

VK_ACCESS_SHADER_READ_BIT == 32
VK_ACCESS_COLOR_ATTACHMENT_WRITE_BIT == 256

VK_FORMAT_UNDEFINED == 0
VK_FORMAT_R8G8B8A8_UNORM == 37
VK_FORMAT_R32_UINT == 98
VK_FORMAT_D32_SFLOAT == 126
VK_FORMAT_D24_UNORM_S8_UINT == 129
VK_FORMAT_D32_SFLOAT_S8_UINT == 130

VK_IMAGE_ASPECT_COLOR_BIT == 1
VK_IMAGE_ASPECT_DEPTH_BIT == 2
VK_IMAGE_ASPECT_STENCIL_BIT == 4

\* (~0U): the all-ones 32-bit word, written as the signed value of that bit pattern.
VK_QUEUE_FAMILY_IGNORED == -1

VK_BUFFER_USAGE_UNIFORM_TEXEL_BUFFER_BIT == 4
VK_BUFFER_USAGE_STORAGE_TEXEL_BUFFER_BIT == 8
VK_BUFFER_USAGE_STORAGE_BUFFER_BIT == 32

(***************************************************************************)
(* Bitwise | and & of the C++ flag types.                                  *)
(***************************************************************************)
RECURSIVE BitOr(_, _)
BitOr(a, b) ==
    IF a = 0 THEN b
    ELSE IF b = 0 THEN a
    ELSE (IF a % 2 = 1 \/ b % 2 = 1 THEN 1 ELSE 0) + 2 * BitOr(a \div 2, b \div 2)

RECURSIVE BitAnd(_, _)
BitAnd(a, b) ==
    IF a = 0 \/ b = 0 THEN 0
    ELSE (IF a % 2 = 1 /\ b % 2 = 1 THEN 1 ELSE 0) + 2 * BitAnd(a \div 2, b \div 2)

(***************************************************************************)
(* State.                                                                  *)
(***************************************************************************)
VARIABLES
    \* ImageAndView
    image,            \* image.image: the VkImage handle (NULL when none)
    view,             \* VkImageView handle (NULL when none)
    c_width, c_height, c_layers, c_format,
    currentLayout, currentStages, currentAccesses,
    \* BufferAndView
    buffer,           \* buffer.buffer: the VkBuffer handle (NULL when none)
    bufferView,       \* BufferAndView::view
    size,             \* BufferAndView::size
    \* allocator and device
    images,           \* handles of the live image allocations
    views,            \* handles of the live image views
    buffers,          \* handles of the live buffer allocations
    bufferViews,      \* handles of the live buffer views
    imageFrees,       \* per image handle, the number of times it was released
    viewFrees,        \* per view handle, the number of times it was released
    nextHandle,       \* the next handle value the allocator/device hands out
    \* command buffer
    cmd,              \* the commands recorded so far
    \* control
    aborted,          \* an assert() failed: the program is gone
    \* observation
    calls             \* the calls made so far, each with its arguments

imageVars == <<image, view, c_width, c_height, c_layers, c_format, currentLayout, currentStages, currentAccesses>>
bufferVars == <<buffer, bufferView, size>>
imageEnvVars == <<images, views, imageFrees, viewFrees>>
bufferEnvVars == <<buffers, bufferViews>>
vars == <<imageVars, bufferVars, imageEnvVars, bufferEnvVars, nextHandle, cmd, aborted, calls>>

Handles == 1..(MaxCalls + MaxBufferCalls)

(***************************************************************************)
(* Initial state: the default member initializers of the two structs, an   *)
(* allocator with nothing allocated and an empty command buffer.           *)
(***************************************************************************)
Init ==
    /\ image = NULL
    /\ view = NULL
    /\ c_width = 0
    /\ c_height = 0
    /\ c_layers = 0
    /\ c_format = VK_FORMAT_UNDEFINED
    /\ currentLayout = VK_IMAGE_LAYOUT_UNDEFINED
    /\ currentStages = VK_PIPELINE_STAGE_TOP_OF_PIPE_BIT
    /\ currentAccesses = 0
    /\ buffer = NULL
    /\ bufferView = NULL
    /\ size = 0
    /\ images = {}
    /\ views = {}
    /\ buffers = {}
    /\ bufferViews = {}
    /\ imageFrees = [h \in Handles |-> 0]
    /\ viewFrees = [h \in Handles |-> 0]
    /\ nextHandle = 1
    /\ cmd = <<>>
    /\ aborted = FALSE
    /\ calls = <<>>

(***************************************************************************)
(* BufferAndView::create.  nvvk::createBufferView yields the new view.     *)
(***************************************************************************)
\* create with only the storage texel bit tested for the view.
bufferCreate_storageTexelOnly(bufferSize, bufferUsage, viewFormat) ==
    /\ ~aborted
    /\ Len(calls) < MaxBufferCalls
    /\ IF buffer # NULL
       THEN /\ aborted' = TRUE
            /\ calls' = Append(calls, [op |-> "bufferCreate", ok |-> FALSE,
                                       bufferSize |-> bufferSize, bufferUsage |-> bufferUsage])
            /\ UNCHANGED <<imageVars, bufferVars, imageEnvVars, bufferEnvVars, nextHandle, cmd>>
       ELSE /\ buffer' = nextHandle
            /\ buffers' = buffers \cup {nextHandle}
            /\ IF BitAnd(bufferUsage, VK_BUFFER_USAGE_STORAGE_TEXEL_BUFFER_BIT) # 0
               THEN /\ bufferView' = nextHandle
                    /\ bufferViews' = bufferViews \cup {nextHandle}
               ELSE UNCHANGED <<bufferView, bufferViews>>
            /\ size' = bufferSize
            /\ nextHandle' = nextHandle + 1
            /\ calls' = Append(calls, [op |-> "bufferCreate", ok |-> TRUE,
                                       bufferSize |-> bufferSize, bufferUsage |-> bufferUsage])
            /\ UNCHANGED <<imageVars, imageEnvVars, cmd, aborted>>

bufferCreate(bufferSize, bufferUsage, viewFormat) ==
    /\ ~aborted
    /\ Len(calls) < MaxBufferCalls
    /\ IF buffer # NULL
       THEN \* assert(buffer.buffer == nullptr) fails
            /\ aborted' = TRUE
            /\ calls' = Append(calls, [op |-> "bufferCreate", ok |-> FALSE,
                                       bufferSize |-> bufferSize, bufferUsage |-> bufferUsage])
            /\ UNCHANGED <<imageVars, bufferVars, imageEnvVars, bufferEnvVars, nextHandle, cmd>>
       ELSE /\ buffer' = nextHandle
            /\ buffers' = buffers \cup {nextHandle}
            /\ IF BitAnd(bufferUsage, BitOr(VK_BUFFER_USAGE_STORAGE_TEXEL_BUFFER_BIT,
                                            VK_BUFFER_USAGE_UNIFORM_TEXEL_BUFFER_BIT)) # 0
               THEN /\ bufferView' = nextHandle
                    /\ bufferViews' = bufferViews \cup {nextHandle}
               ELSE UNCHANGED <<bufferView, bufferViews>>
            /\ size' = bufferSize
            /\ nextHandle' = nextHandle + 1
            /\ calls' = Append(calls, [op |-> "bufferCreate", ok |-> TRUE,
                                       bufferSize |-> bufferSize, bufferUsage |-> bufferUsage])
            /\ UNCHANGED <<imageVars, imageEnvVars, cmd, aborted>>

(***************************************************************************)
(* BufferAndView::destroy.  AllocatorDma::destroy releases the buffer and  *)
(* leaves the BufferDma it was given reset (a null handle).                *)
(***************************************************************************)
bufferDestroy ==
    /\ ~aborted
    /\ Len(calls) < MaxBufferCalls
    /\ IF buffer # NULL
       THEN /\ buffers' = buffers \ {buffer}
            /\ buffer' = NULL
       ELSE UNCHANGED <<buffer, buffers>>
    /\ IF bufferView # NULL
       THEN /\ bufferViews' = bufferViews \ {bufferView}
            /\ bufferView' = NULL
       ELSE UNCHANGED <<bufferView, bufferViews>>
    /\ size' = 0
    /\ calls' = Append(calls, [op |-> "bufferDestroy", buffer |-> buffer, view |-> bufferView])
    /\ UNCHANGED <<imageVars, imageEnvVars, nextHandle, cmd, aborted>>

(***************************************************************************)
(* BufferAndView::memoryBarrier: one vkCmdPipelineBarrier holding one      *)
(* VkBufferMemoryBarrier.                                                  *)
(***************************************************************************)
memoryBarrier(stagesDependedUpon, stagesThatDepend, accessesDependedUpon, accessesThatDepend) ==
    /\ ~aborted
    /\ Len(calls) < MaxBufferCalls
    /\ cmd' = Append(cmd,
           [kind                |-> "bufferBarrier",
            srcStageMask        |-> stagesDependedUpon,
            dstStageMask        |-> stagesThatDepend,
            srcAccessMask       |-> stagesDependedUpon,
            dstAccessMask       |-> stagesThatDepend,
            srcQueueFamilyIndex |-> VK_QUEUE_FAMILY_IGNORED,
            dstQueueFamilyIndex |-> VK_QUEUE_FAMILY_IGNORED,
            buffer              |-> buffer,
            offset              |-> 0,
            size                |-> size])
    /\ calls' = Append(calls, [op |-> "memoryBarrier",
                               stagesDependedUpon |-> stagesDependedUpon,
                               stagesThatDepend |-> stagesThatDepend,
                               accessesDependedUpon |-> accessesDependedUpon,
                               accessesThatDepend |-> accessesThatDepend])
    /\ UNCHANGED <<imageVars, bufferVars, imageEnvVars, bufferEnvVars, nextHandle, aborted>>

(***************************************************************************)
(* createImageSimple: AllocatorDma::createImage hands out a fresh image;   *)
(* the result is the allocator's set of live images with it added.  (The   *)
(* VkImageCreateInfo the function fills in stays with the allocator and is *)
(* not read again by this file.)                                           *)
(***************************************************************************)
createImageSimple(allocated, handle) == allocated \cup {handle}

(***************************************************************************)
(* doTransition: the command buffer with one vkCmdPipelineBarrier holding  *)
(* one VkImageMemoryBarrier appended.                                      *)
(***************************************************************************)
\* doTransition with the layer count fixed at 1 instead of numLayers.
doTransition_oneLayer(cmdBuffer, img, aspect, srcLayout, srcStages, srcAccesses, dstLayout, dstStages, dstAccesses, numLayers) ==
    Append(cmdBuffer,
           [kind                |-> "imageBarrier",
            srcStageMask        |-> srcStages,
            dstStageMask        |-> dstStages,
            oldLayout           |-> srcLayout,
            newLayout           |-> dstLayout,
            srcQueueFamilyIndex |-> VK_QUEUE_FAMILY_IGNORED,
            dstQueueFamilyIndex |-> VK_QUEUE_FAMILY_IGNORED,
            image               |-> img,
            aspectMask          |-> aspect,
            baseMipLevel        |-> 0,
            levelCount          |-> 1,
            baseArrayLayer      |-> 0,
            layerCount          |-> 1,
            srcAccessMask       |-> srcAccesses,
            dstAccessMask       |-> dstAccesses])

doTransition(cmdBuffer, img, aspect, srcLayout, srcStages, srcAccesses, dstLayout, dstStages, dstAccesses, numLayers) ==
    Append(cmdBuffer,
           [kind                |-> "imageBarrier",
            srcStageMask        |-> srcStages,
            dstStageMask        |-> dstStages,
            oldLayout           |-> srcLayout,
            newLayout           |-> dstLayout,
            srcQueueFamilyIndex |-> VK_QUEUE_FAMILY_IGNORED,
            dstQueueFamilyIndex |-> VK_QUEUE_FAMILY_IGNORED,
            image               |-> img,
            aspectMask          |-> aspect,
            baseMipLevel        |-> 0,
            levelCount          |-> 1,
            baseArrayLayer      |-> 0,
            layerCount          |-> numLayers,
            srcAccessMask       |-> srcAccesses,
            dstAccessMask       |-> dstAccesses])

(***************************************************************************)
(* ImageAndView::create.  imageType, viewAspect, additionalUsageFlags and  *)
(* numSamples only reach the create-info structures.  viewOk is the        *)
(* outcome of vkCreateImageView, whose result the code does not look at:   *)
(* on failure the view handle stays as it was (null, by the assertion).    *)
(***************************************************************************)
\* create without its assertion.
assertViewIsNull_absent == TRUE

\* The condition of create's assertion.
assertViewIsNull == view = NULL

\* create with the width and height assignments crossed.
create_swapsExtent(format, width, height, arrayLayers, viewOk) ==
    /\ ~aborted
    /\ Len(calls) < MaxCalls
    /\ calls' = Append(calls, [op |-> "create", ok |-> assertViewIsNull, format |-> format,
                               width |-> width, height |-> height,
                               arrayLayers |-> arrayLayers, viewOk |-> viewOk])
    /\ IF ~assertViewIsNull
       THEN /\ aborted' = TRUE
            /\ UNCHANGED <<imageVars, bufferVars, imageEnvVars, bufferEnvVars, nextHandle, cmd>>
       ELSE /\ image' = nextHandle
            /\ images' = createImageSimple(images, nextHandle)
            /\ IF viewOk
               THEN /\ view' = nextHandle
                    /\ views' = views \cup {nextHandle}
               ELSE UNCHANGED <<view, views>>
            /\ nextHandle' = nextHandle + 1
            /\ c_width' = height
            /\ c_height' = width
            /\ c_layers' = arrayLayers
            /\ c_format' = format
            /\ UNCHANGED <<currentLayout, currentStages, currentAccesses, bufferVars,
                           bufferEnvVars, imageFrees, viewFrees, cmd, aborted>>

create(format, width, height, arrayLayers, viewOk) ==
    /\ ~aborted
    /\ Len(calls) < MaxCalls
    /\ calls' = Append(calls, [op |-> "create", ok |-> assertViewIsNull, format |-> format,
                               width |-> width, height |-> height,
                               arrayLayers |-> arrayLayers, viewOk |-> viewOk])
    /\ IF ~assertViewIsNull
       THEN \* assert(view == nullptr) fails
            /\ aborted' = TRUE
            /\ UNCHANGED <<imageVars, bufferVars, imageEnvVars, bufferEnvVars, nextHandle, cmd>>
       ELSE /\ image' = nextHandle
            /\ images' = createImageSimple(images, nextHandle)
            /\ IF viewOk
               THEN /\ view' = nextHandle
                    /\ views' = views \cup {nextHandle}
               ELSE UNCHANGED <<view, views>>
            /\ nextHandle' = nextHandle + 1
            /\ c_width' = width
            /\ c_height' = height
            /\ c_layers' = arrayLayers
            /\ c_format' = format
            /\ UNCHANGED <<currentLayout, currentStages, currentAccesses, bufferVars,
                           bufferEnvVars, imageFrees, viewFrees, cmd, aborted>>

(***************************************************************************)
(* ImageAndView::destroy.  AllocatorDma::destroy releases the image and    *)
(* leaves the ImageDma it was given reset (a null handle).                 *)
(***************************************************************************)
\* destroy without the reset of the stored layout, stages and accesses.
destroy_keepsState ==
    /\ ~aborted
    /\ Len(calls) < MaxCalls
    /\ IF view # NULL
       THEN /\ views' = views \ {view}
            /\ viewFrees' = [viewFrees EXCEPT ![view] = @ + 1]
            /\ images' = images \ {image}
            /\ imageFrees' = IF image # NULL
                             THEN [imageFrees EXCEPT ![image] = @ + 1]
                             ELSE imageFrees
            /\ image' = NULL
            /\ view' = NULL
            /\ UNCHANGED <<currentLayout, currentStages, currentAccesses>>
       ELSE UNCHANGED <<image, view, currentLayout, currentStages, currentAccesses, imageEnvVars>>
    /\ calls' = Append(calls, [op |-> "destroy", view |-> view, image |-> image])
    /\ UNCHANGED <<c_width, c_height, c_layers, c_format, bufferVars, bufferEnvVars,
                   nextHandle, cmd, aborted>>

\* destroy without view = nullptr.
destroy_keepsView ==
    /\ ~aborted
    /\ Len(calls) < MaxCalls
    /\ IF view # NULL
       THEN /\ views' = views \ {view}
            /\ viewFrees' = [viewFrees EXCEPT ![view] = @ + 1]
            /\ images' = images \ {image}
            /\ imageFrees' = IF image # NULL
                             THEN [imageFrees EXCEPT ![image] = @ + 1]
                             ELSE imageFrees
            /\ image' = NULL
            /\ view' = view
            /\ currentLayout' = VK_IMAGE_LAYOUT_UNDEFINED
            /\ currentStages' = VK_PIPELINE_STAGE_TOP_OF_PIPE_BIT
            /\ currentAccesses' = 0
       ELSE UNCHANGED <<image, view, currentLayout, currentStages, currentAccesses, imageEnvVars>>
    /\ calls' = Append(calls, [op |-> "destroy", view |-> view, image |-> image])
    /\ UNCHANGED <<c_width, c_height, c_layers, c_format, bufferVars, bufferEnvVars,
                   nextHandle, cmd, aborted>>

destroy ==
    /\ ~aborted
    /\ Len(calls) < MaxCalls
    /\ IF view # NULL
       THEN /\ views' = views \ {view}
            /\ viewFrees' = [viewFrees EXCEPT ![view] = @ + 1]
            /\ images' = images \ {image}
            /\ imageFrees' = IF image # NULL
                             THEN [imageFrees EXCEPT ![image] = @ + 1]
                             ELSE imageFrees
            /\ image' = NULL
            /\ view' = NULL
            /\ currentLayout' = VK_IMAGE_LAYOUT_UNDEFINED
            /\ currentStages' = VK_PIPELINE_STAGE_TOP_OF_PIPE_BIT
            /\ currentAccesses' = 0
       ELSE UNCHANGED <<image, view, currentLayout, currentStages, currentAccesses, imageEnvVars>>
    /\ calls' = Append(calls, [op |-> "destroy", view |-> view, image |-> image])
    /\ UNCHANGED <<c_width, c_height, c_layers, c_format, bufferVars, bufferEnvVars,
                   nextHandle, cmd, aborted>>

(***************************************************************************)
(* ImageAndView::transitionTo.                                             *)
(***************************************************************************)
\* The aspect mask with D24_UNORM_S8_UINT left out of the stencil formats.
aspectMask_oneStencilFormat(dstLayout) ==
    IF dstLayout = VK_IMAGE_LAYOUT_DEPTH_STENCIL_ATTACHMENT_OPTIMAL
    THEN IF c_format = VK_FORMAT_D32_SFLOAT_S8_UINT
         THEN BitOr(VK_IMAGE_ASPECT_DEPTH_BIT, VK_IMAGE_ASPECT_STENCIL_BIT)
         ELSE VK_IMAGE_ASPECT_DEPTH_BIT
    ELSE VK_IMAGE_ASPECT_COLOR_BIT

\* The aspect mask computed at the head of transitionTo.
aspectMask(dstLayout) ==
    IF dstLayout = VK_IMAGE_LAYOUT_DEPTH_STENCIL_ATTACHMENT_OPTIMAL
    THEN IF c_format = VK_FORMAT_D32_SFLOAT_S8_UINT \/ c_format = VK_FORMAT_D24_UNORM_S8_UINT
         THEN BitOr(VK_IMAGE_ASPECT_DEPTH_BIT, VK_IMAGE_ASPECT_STENCIL_BIT)
         ELSE VK_IMAGE_ASPECT_DEPTH_BIT
    ELSE VK_IMAGE_ASPECT_COLOR_BIT

\* transitionTo without the update of currentAccesses.
transitionTo_staleAccesses(dstLayout, dstStages, dstAccesses) ==
    /\ ~aborted
    /\ Len(calls) < MaxCalls
    /\ cmd' = doTransition(cmd, image, aspectMask(dstLayout), currentLayout, currentStages,
                           currentAccesses, dstLayout, dstStages, dstAccesses, c_layers)
    /\ currentLayout' = dstLayout
    /\ currentStages' = dstStages
    /\ currentAccesses' = currentAccesses
    /\ calls' = Append(calls, [op |-> "transitionTo", dstLayout |-> dstLayout,
                               dstStages |-> dstStages, dstAccesses |-> dstAccesses])
    /\ UNCHANGED <<image, view, c_width, c_height, c_layers, c_format, bufferVars,
                   imageEnvVars, bufferEnvVars, nextHandle, aborted>>

transitionTo(dstLayout, dstStages, dstAccesses) ==
    /\ ~aborted
    /\ Len(calls) < MaxCalls
    /\ cmd' = doTransition(cmd, image, aspectMask(dstLayout), currentLayout, currentStages,
                           currentAccesses, dstLayout, dstStages, dstAccesses, c_layers)
    /\ currentLayout' = dstLayout
    /\ currentStages' = dstStages
    /\ currentAccesses' = dstAccesses
    /\ calls' = Append(calls, [op |-> "transitionTo", dstLayout |-> dstLayout,
                               dstStages |-> dstStages, dstAccesses |-> dstAccesses])
    /\ UNCHANGED <<image, view, c_width, c_height, c_layers, c_format, bufferVars,
                   imageEnvVars, bufferEnvVars, nextHandle, aborted>>

(***************************************************************************)
(* ImageAndView::endRenderPass.                                            *)
(***************************************************************************)
\* endRenderPass that also resets the stored stages and accesses.
endRenderPass_resetsScope(dstLayout) ==
    /\ ~aborted
    /\ Len(calls) < MaxCalls
    /\ currentLayout' = dstLayout
    /\ currentStages' = VK_PIPELINE_STAGE_TOP_OF_PIPE_BIT
    /\ currentAccesses' = 0
    /\ calls' = Append(calls, [op |-> "endRenderPass", dstLayout |-> dstLayout])
    /\ UNCHANGED <<image, view, c_width, c_height, c_layers, c_format, bufferVars,
                   imageEnvVars, bufferEnvVars, nextHandle, cmd, aborted>>

endRenderPass(dstLayout) ==
    /\ ~aborted
    /\ Len(calls) < MaxCalls
    /\ currentLayout' = dstLayout
    /\ calls' = Append(calls, [op |-> "endRenderPass", dstLayout |-> dstLayout])
    /\ UNCHANGED <<image, view, c_width, c_height, c_layers, c_format, currentStages,
                   currentAccesses, bufferVars, imageEnvVars, bufferEnvVars, nextHandle,
                   cmd, aborted>>

(***************************************************************************)
(* Inputs of the calls.                                                    *)
(***************************************************************************)
Layouts == {VK_IMAGE_LAYOUT_GENERAL, VK_IMAGE_LAYOUT_COLOR_ATTACHMENT_OPTIMAL,
            VK_IMAGE_LAYOUT_DEPTH_STENCIL_ATTACHMENT_OPTIMAL}
\* stages, accesses
Scopes == {<<VK_PIPELINE_STAGE_FRAGMENT_SHADER_BIT, VK_ACCESS_SHADER_READ_BIT>>,
           <<VK_PIPELINE_STAGE_COLOR_ATTACHMENT_OUTPUT_BIT, VK_ACCESS_COLOR_ATTACHMENT_WRITE_BIT>>}
Stages == {VK_PIPELINE_STAGE_FRAGMENT_SHADER_BIT, VK_PIPELINE_STAGE_COLOR_ATTACHMENT_OUTPUT_BIT}
Accesses == {VK_ACCESS_SHADER_READ_BIT, VK_ACCESS_COLOR_ATTACHMENT_WRITE_BIT}
\* format, width, height, arrayLayers
ImageConfigs == {<<VK_FORMAT_R8G8B8A8_UNORM, 256, 128, 2>>,
                 <<VK_FORMAT_D32_SFLOAT, 512, 512, 1>>,
                 <<VK_FORMAT_D24_UNORM_S8_UINT, 256, 128, 1>>,
                 <<VK_FORMAT_D32_SFLOAT_S8_UINT, 512, 256, 2>>}
\* bufferSize, bufferUsage
BufferConfigs == {<<64, VK_BUFFER_USAGE_STORAGE_BUFFER_BIT>>,
                  <<256, VK_BUFFER_USAGE_STORAGE_TEXEL_BUFFER_BIT>>,
                  <<128, BitOr(VK_BUFFER_USAGE_UNIFORM_TEXEL_BUFFER_BIT,
                               VK_BUFFER_USAGE_STORAGE_BUFFER_BIT)>>}

ImageCreate ==
    \E c \in ImageConfigs, viewOk \in BOOLEAN : create(c[1], c[2], c[3], c[4], viewOk)

ImageDestroy == destroy

ImageTransitionTo ==
    \E dstLayout \in Layouts, scope \in Scopes : transitionTo(dstLayout, scope[1], scope[2])

ImageEndRenderPass == \E dstLayout \in Layouts : endRenderPass(dstLayout)

BufferCreate == \E c \in BufferConfigs : bufferCreate(c[1], c[2], VK_FORMAT_R32_UINT)

BufferDestroy == bufferDestroy

BufferMemoryBarrier ==
    \E s1 \in Stages, s2 \in Stages, a1 \in Accesses, a2 \in Accesses : memoryBarrier(s1, s2, a1, a2)

(***************************************************************************)
(* Specifications: the calls on the ImageAndView object, and the calls on  *)
(* the BufferAndView object.                                               *)
(***************************************************************************)
Next == ImageCreate \/ ImageDestroy \/ ImageTransitionTo \/ ImageEndRenderPass

Spec == Init /\ [][Next]_vars

NextBuffer == BufferCreate \/ BufferDestroy \/ BufferMemoryBarrier

SpecBuffer == Init /\ [][NextBuffer]_vars

\* Well-ordered use of the ImageAndView object: transitionTo and
\* endRenderPass are called only while the object holds a view.
OrderedTransitionTo == view # NULL /\ ImageTransitionTo

OrderedEndRenderPass == view # NULL /\ ImageEndRenderPass

NextOrdered == ImageCreate \/ ImageDestroy \/ OrderedTransitionTo \/ OrderedEndRenderPass

SpecOrdered == Init /\ [][NextOrdered]_vars

(***************************************************************************)
(* Vocabulary of the properties.                                           *)
(***************************************************************************)
NumCalls == Len(calls)
\* The most recent call and the command most recently recorded.
LastCall == calls[Len(calls)]
LastCmd == cmd[Len(cmd)]
LastIs(op) == calls # <<>> /\ LastCall.op = op
\* The step is a call of op.
Calling(op) == Len(calls') = Len(calls) + 1 /\ calls'[Len(calls')].op = op
\* The creates that passed their assertion and ran to their end.
Creates == {i \in 1..Len(calls) : calls[i].op = "create" /\ calls[i].ok}
LastCreate == calls[CHOOSE i \in Creates : \A j \in Creates : j <= i]
Baseline ==
    /\ currentLayout = VK_IMAGE_LAYOUT_UNDEFINED
    /\ currentStages = VK_PIPELINE_STAGE_TOP_OF_PIPE_BIT
    /\ currentAccesses = 0

(***************************************************************************)
(* C1: after every create that ran to its end, whatever calls preceded it, *)
(* the stored state is (UNDEFINED, TOP_OF_PIPE, 0).                        *)
(***************************************************************************)
C1_CreateInitializesState == (LastIs("create") /\ LastCall.ok) => Baseline

(***************************************************************************)
(* C2: of two transitionTo calls in a row, the second one's barrier has    *)
(* the first call's target triple as its before-side and its own target    *)
(* triple as its after-side, and the stored state ends as the second       *)
(* call's target triple.                                                   *)
(***************************************************************************)
C2_ConsecutiveTransitions ==
    (NumCalls >= 2 /\ calls[NumCalls - 1].op = "transitionTo" /\ LastCall.op = "transitionTo") =>
        LET first == calls[NumCalls - 1]
            second == LastCall
        IN /\ cmd # <<>>
           /\ LastCmd.oldLayout = first.dstLayout
           /\ LastCmd.srcStageMask = first.dstStages
           /\ LastCmd.srcAccessMask = first.dstAccesses
           /\ LastCmd.newLayout = second.dstLayout
           /\ LastCmd.dstStageMask = second.dstStages
           /\ LastCmd.dstAccessMask = second.dstAccesses
           /\ currentLayout = second.dstLayout
           /\ currentStages = second.dstStages
           /\ currentAccesses = second.dstAccesses

\* Two transitionTo calls in a row on a live image, to different targets.
C2_Witness ==
    /\ NumCalls >= 3
    /\ view # NULL
    /\ calls[NumCalls - 1].op = "transitionTo"
    /\ LastCall.op = "transitionTo"
    /\ calls[NumCalls - 1].dstLayout # LastCall.dstLayout
    /\ calls[NumCalls - 1].dstStages # LastCall.dstStages

(***************************************************************************)
(* C3: the aspect mask of transitionTo's barrier is {depth, stencil} for   *)
(* target DEPTH_STENCIL_ATTACHMENT_OPTIMAL with format D32_SFLOAT_S8_UINT  *)
(* or D24_UNORM_S8_UINT, {depth} for that target with any other format,    *)
(* and {color} for every other target, whatever the current state.         *)
(***************************************************************************)
C3_AspectMask ==
    LastIs("transitionTo") =>
        /\ cmd # <<>>
        /\ LastCmd.aspectMask =
              IF LastCall.dstLayout = VK_IMAGE_LAYOUT_DEPTH_STENCIL_ATTACHMENT_OPTIMAL
              THEN IF c_format \in {VK_FORMAT_D32_SFLOAT_S8_UINT, VK_FORMAT_D24_UNORM_S8_UINT}
                   THEN VK_IMAGE_ASPECT_DEPTH_BIT + VK_IMAGE_ASPECT_STENCIL_BIT
                   ELSE VK_IMAGE_ASPECT_DEPTH_BIT
              ELSE VK_IMAGE_ASPECT_COLOR_BIT

\* A transition of a D24_UNORM_S8_UINT image, from a colour layout, to the
\* depth-stencil layout.
C3_Witness ==
    /\ LastIs("transitionTo")
    /\ c_format = VK_FORMAT_D24_UNORM_S8_UINT
    /\ LastCall.dstLayout = VK_IMAGE_LAYOUT_DEPTH_STENCIL_ATTACHMENT_OPTIMAL
    /\ LastCmd.oldLayout = VK_IMAGE_LAYOUT_COLOR_ATTACHMENT_OPTIMAL
    /\ LastCmd.aspectMask = VK_IMAGE_ASPECT_DEPTH_BIT + VK_IMAGE_ASPECT_STENCIL_BIT

(***************************************************************************)
(* C4: endRenderPass(L) sets currentLayout to L, leaves currentStages,     *)
(* currentAccesses, the image handle, the view and the width / height /    *)
(* layers / format metadata as they were, and records no command.          *)
(***************************************************************************)
C4_EndRenderPassOnlyLayout ==
    [][Calling("endRenderPass") =>
          /\ currentLayout' = calls'[Len(calls')].dstLayout
          /\ UNCHANGED <<currentStages, currentAccesses, image, view,
                         c_width, c_height, c_layers, c_format, cmd>>]_vars

\* endRenderPass on a live image right after a transition to another layout.
C4_Witness ==
    /\ NumCalls >= 3
    /\ LastCall.op = "endRenderPass"
    /\ calls[NumCalls - 1].op = "transitionTo"
    /\ calls[NumCalls - 1].dstLayout # LastCall.dstLayout
    /\ view # NULL
    /\ currentLayout = LastCall.dstLayout
    /\ currentStages # VK_PIPELINE_STAGE_TOP_OF_PIPE_BIT

(***************************************************************************)
(* C5: destroy on a live image (one holding a view) releases the view and  *)
(* the image allocation, sets view to null and resets the stored state to  *)
(* (UNDEFINED, TOP_OF_PIPE, 0), whatever happened since the create.        *)
(***************************************************************************)
C5_DestroyLive ==
    (LastIs("destroy") /\ LastCall.view # NULL) =>
        /\ view = NULL
        /\ LastCall.view \notin views
        /\ viewFrees[LastCall.view] = 1
        /\ LastCall.image # NULL
        /\ LastCall.image \notin images
        /\ imageFrees[LastCall.image] = 1
        /\ Baseline

\* destroy of a live image right after a transition.
C5_Witness ==
    /\ NumCalls >= 3
    /\ LastCall.op = "destroy"
    /\ LastCall.view # NULL
    /\ calls[NumCalls - 1].op = "transitionTo"

(***************************************************************************)
(* C6: destroy on an object that holds no view (never created, or already  *)
(* destroyed) releases nothing and changes no field; and no view and no    *)
(* image allocation is ever released more than once.                       *)
(***************************************************************************)
C6_DestroyIdempotent ==
    /\ [](\A h \in Handles : viewFrees[h] <= 1 /\ imageFrees[h] <= 1)
    /\ [][(Calling("destroy") /\ view = NULL) =>
             UNCHANGED <<imageVars, imageEnvVars, nextHandle, cmd, aborted>>]_vars

\* A second destroy right after the destroy of a live image.
C6_Witness ==
    /\ NumCalls >= 3
    /\ LastCall.op = "destroy"
    /\ LastCall.view = NULL
    /\ calls[NumCalls - 1].op = "destroy"
    /\ calls[NumCalls - 1].view # NULL

(***************************************************************************)
(* C7: create on an object that holds a view fails its assertion before    *)
(* anything is allocated and before any field changes; a create gets past  *)
(* its assertion only from a state where view is null.                     *)
(***************************************************************************)
C7_CreateAsserts ==
    [][Calling("create") =>
          /\ view # NULL =>
                /\ aborted'
                /\ ~calls'[Len(calls')].ok
                /\ UNCHANGED <<imageVars, imageEnvVars, nextHandle, cmd>>
          /\ (~aborted' /\ calls'[Len(calls')].ok) => view = NULL]_vars

\* A create on an image that is live and has been transitioned.
C7_Witness ==
    /\ NumCalls >= 3
    /\ LastCall.op = "create"
    /\ ~LastCall.ok
    /\ aborted
    /\ view # NULL
    /\ calls[NumCalls - 1].op = "transitionTo"

(***************************************************************************)
(* C8: memoryBarrier's pipeline barrier has stagesDependedUpon and         *)
(* stagesThatDepend as its stage masks, and its buffer barrier has         *)
(* accessesDependedUpon and accessesThatDepend as its access masks.        *)
(***************************************************************************)
C8_MemoryBarrierMasks ==
    LastIs("memoryBarrier") =>
        /\ cmd # <<>>
        /\ LastCmd.kind = "bufferBarrier"
        /\ LastCmd.srcStageMask = LastCall.stagesDependedUpon
        /\ LastCmd.dstStageMask = LastCall.stagesThatDepend
        /\ LastCmd.srcAccessMask = LastCall.accessesDependedUpon
        /\ LastCmd.dstAccessMask = LastCall.accessesThatDepend

(***************************************************************************)
(* C9: each transitionTo call records exactly one barrier, and that        *)
(* barrier covers mip level 0 only, array layers 0 .. arrayLayers - 1 of   *)
(* the most recent create that ran to its end, with both queue family      *)
(* indices IGNORED.                                                        *)
(***************************************************************************)
C9_BarrierRange ==
    /\ Len(cmd) = Cardinality({i \in 1..Len(calls) : calls[i].op = "transitionTo"})
    /\ LastIs("transitionTo") =>
          /\ LastCmd.kind = "imageBarrier"
          /\ LastCmd.baseMipLevel = 0
          /\ LastCmd.levelCount = 1
          /\ LastCmd.baseArrayLayer = 0
          /\ Creates # {} => LastCmd.layerCount = LastCreate.arrayLayers
          /\ LastCmd.srcQueueFamilyIndex = VK_QUEUE_FAMILY_IGNORED
          /\ LastCmd.dstQueueFamilyIndex = VK_QUEUE_FAMILY_IGNORED

\* A transition of a two-layer image created after a one-layer one.
C9_Witness ==
    /\ LastIs("transitionTo")
    /\ view # NULL
    /\ Cardinality(Creates) = 2
    /\ LastCreate.arrayLayers = 2
    /\ \E i \in Creates : calls[i].arrayLayers = 1
    /\ LastCmd.layerCount = 2

(***************************************************************************)
(* C10: from a create that ran to its end up to the next destroy call,     *)
(* c_width, c_height, c_layers and c_format are the width, height,         *)
(* arrayLayers and format arguments of that create, whatever transitionTo  *)
(* and endRenderPass calls followed it.                                    *)
(***************************************************************************)
C10_MetadataImmutable ==
    \A i \in Creates :
        (\A j \in (i + 1)..Len(calls) : calls[j].op \in {"transitionTo", "endRenderPass"}) =>
            /\ c_width = calls[i].width
            /\ c_height = calls[i].height
            /\ c_layers = calls[i].arrayLayers
            /\ c_format = calls[i].format

\* A live image after a create, a transition and an endRenderPass.
C10_Witness ==
    /\ NumCalls >= 3
    /\ view # NULL
    /\ calls[NumCalls - 2].op = "create"
    /\ calls[NumCalls - 1].op = "transitionTo"
    /\ LastCall.op = "endRenderPass"
    /\ c_width = 256
    /\ c_height = 128

(***************************************************************************)
(* C11: after BufferAndView::create the view is non-null exactly when the  *)
(* usage flags hold STORAGE_TEXEL_BUFFER or UNIFORM_TEXEL_BUFFER, and size *)
(* is the requested size; destroy releases a view only if the object held  *)
(* one, and leaves view null and size 0.                                   *)
(***************************************************************************)
TexelUsage(usage) ==
    \/ (usage \div VK_BUFFER_USAGE_STORAGE_TEXEL_BUFFER_BIT) % 2 = 1
    \/ (usage \div VK_BUFFER_USAGE_UNIFORM_TEXEL_BUFFER_BIT) % 2 = 1

C11_BufferViewOptional ==
    /\ []((LastIs("bufferCreate") /\ LastCall.ok) =>
             /\ (bufferView # NULL) <=> TexelUsage(LastCall.bufferUsage)
             /\ bufferView # NULL => bufferView \in bufferViews
             /\ size = LastCall.bufferSize)
    /\ [](LastIs("bufferDestroy") =>
             /\ bufferView = NULL
             /\ size = 0
             /\ LastCall.view \notin bufferViews)
    /\ [][Calling("bufferDestroy") =>
             bufferViews' = IF bufferView # NULL
                            THEN bufferViews \ {bufferView}
                            ELSE bufferViews]_vars

\* A destroy that finds no view, then the create of a buffer with
\* UNIFORM_TEXEL_BUFFER usage and its destroy.
C11_Witness ==
    /\ NumCalls = 3
    /\ calls[1].op = "bufferDestroy"
    /\ calls[1].view = NULL
    /\ calls[2].op = "bufferCreate"
    /\ calls[2].bufferUsage = BitOr(VK_BUFFER_USAGE_UNIFORM_TEXEL_BUFFER_BIT, VK_BUFFER_USAGE_STORAGE_BUFFER_BIT)
    /\ LastCall.op = "bufferDestroy"
    /\ LastCall.view # NULL
    /\ bufferView = NULL
    /\ size = 0
    /\ bufferViews = {}

(***************************************************************************)
(* C12: when a transitionTo follows one or more endRenderPass calls that   *)
(* themselves follow a transitionTo(L1,S1,A1), its barrier's before-side   *)
(* is the layout of the last endRenderPass together with S1 and A1.        *)
(***************************************************************************)
\* The calls k+1 .. n-1 are endRenderPass calls, and there is at least one.
RenderPassesBetween(k, n) ==
    /\ k + 1 < n
    /\ \A j \in (k + 1)..(n - 1) : calls[j].op = "endRenderPass"

C12_TransitionAfterRenderPass ==
    \A k \in 1..NumCalls :
        (/\ calls[k].op = "transitionTo"
         /\ LastCall.op = "transitionTo"
         /\ RenderPassesBetween(k, NumCalls)) =>
            /\ cmd # <<>>
            /\ LastCmd.oldLayout = calls[NumCalls - 1].dstLayout
            /\ LastCmd.srcStageMask = calls[k].dstStages
            /\ LastCmd.srcAccessMask = calls[k].dstAccesses

\* transitionTo, two endRenderPass calls to two other layouts, transitionTo.
C12_Witness ==
    /\ NumCalls = 4
    /\ calls[1].op = "transitionTo"
    /\ calls[2].op = "endRenderPass"
    /\ calls[3].op = "endRenderPass"
    /\ calls[4].op = "transitionTo"
    /\ calls[2].dstLayout # calls[1].dstLayout
    /\ calls[3].dstLayout # calls[2].dstLayout
    /\ calls[3].dstLayout # calls[1].dstLayout
    /\ calls[4].dstStages # calls[1].dstStages
    /\ LastCmd.oldLayout = calls[3].dstLayout

(***************************************************************************)
(* C13: the view and the image allocation live and die together: in every  *)
(* state the object holds a live view exactly when it holds a live image   *)
(* allocation, and the allocator holds no image and the device no view     *)
(* other than the ones the object holds (nothing destroy cannot release).  *)
(***************************************************************************)
C13_ConjoinedLifetime ==
    /\ (view # NULL /\ view \in views) <=> (image # NULL /\ image \in images)
    /\ images \subseteq {image}
    /\ views \subseteq {view}

(***************************************************************************)
(* C14: the reference record of the synchronization state, read off the    *)
(* first n calls: set to (UNDEFINED, TOP_OF_PIPE, 0) by each create that   *)
(* ran to its end, to the target triple by each transitionTo, its layout   *)
(* set to L by each endRenderPass(L); no value before the first create.    *)
(***************************************************************************)
NoRecord == [set |-> FALSE]

RECURSIVE Reference(_)
Reference(n) ==
    IF n = 0 THEN NoRecord
    ELSE LET c == calls[n]
             r == Reference(n - 1)
         IN IF c.op = "create" /\ c.ok
            THEN [set |-> TRUE, layout |-> VK_IMAGE_LAYOUT_UNDEFINED,
                  stages |-> VK_PIPELINE_STAGE_TOP_OF_PIPE_BIT, accesses |-> 0]
            ELSE IF c.op = "transitionTo"
            THEN [set |-> TRUE, layout |-> c.dstLayout, stages |-> c.dstStages,
                  accesses |-> c.dstAccesses]
            ELSE IF c.op = "endRenderPass" /\ r.set
            THEN [r EXCEPT !.layout = c.dstLayout]
            ELSE r

StoredRecord ==
    [set |-> TRUE, layout |-> currentLayout, stages |-> currentStages,
     accesses |-> currentAccesses]

\* The barrier of the last call, a transitionTo, has the record's value from
\* before that call as its before-side.
BarrierFollowsReference ==
    LastIs("transitionTo") =>
        LET before == Reference(NumCalls - 1)
        IN /\ cmd # <<>>
           /\ before.set
           /\ LastCmd.oldLayout = before.layout
           /\ LastCmd.srcStageMask = before.stages
           /\ LastCmd.srcAccessMask = before.accesses

\* C14 as stated: under well-ordered use, in every state (from the first
\* create on) the stored triple equals the reference record, and every
\* barrier's before-side is the record's value just before its call.
C14_NoDriftEveryState ==
    /\ Reference(NumCalls).set => StoredRecord = Reference(NumCalls)
    /\ BarrierFollowsReference

\* C14 as amended: under well-ordered use, in every state in which the image
\* is live the stored triple equals the reference record, and every
\* barrier's before-side is the record's value just before its call.
C14_NoDriftWhileLive ==
    /\ view # NULL => StoredRecord = Reference(NumCalls)
    /\ BarrierFollowsReference

\* A second life of the object: create, destroy, create, transitionTo.
C14_Witness ==
    /\ NumCalls = 4
    /\ view # NULL
    /\ calls[1].op = "create"
    /\ calls[2].op = "destroy"
    /\ calls[3].op = "create"
    /\ calls[4].op = "transitionTo"
    /\ StoredRecord = Reference(4)
    /\ currentLayout = VK_IMAGE_LAYOUT_COLOR_ATTACHMENT_OPTIMAL

(***************************************************************************)
(* C15: every barrier transitionTo records names an image that is live at  *)
(* the time of the call, and a transitionTo on an object that holds no     *)
(* live image records no barrier and leaves the stored state as it was.    *)
(***************************************************************************)
ImageIsLive == image # NULL /\ image \in images /\ view # NULL /\ view \in views

C15_BarrierOnLiveImage ==
    /\ [](LastIs("transitionTo") =>
             /\ LastCmd.image # NULL
             /\ LastCmd.image \in images)
    /\ [][(Calling("transitionTo") /\ ~ImageIsLive) =>
             UNCHANGED <<cmd, currentLayout, currentStages, currentAccesses>>]_vars

====
